---- MODULE Spec2Model ----
(***************************************************************************)
(* A model of src/database.py: the connection / cursor / transaction       *)
(* lifecycle of DatabaseConnection, the statement executor, the CRUD       *)
(* facade built on it, the schema and health operations, batch_update and  *)
(* paginate.                                                               *)
(*                                                                         *)
(* The relational engine is the external collaborator.  It is modelled as  *)
(* a transactional store of one table: every connection buffers its writes *)
(* in a private log that a commit applies to the committed table and that  *)
(* a rollback, a close or a lost connection discards (autocommit is off,   *)
(* src/database.py:31).  A DROP TABLE is committed implicitly: it takes    *)
(* effect when it runs.  The AUTO_INCREMENT counter of the table is not    *)
(* transactional: a key it gave out is not given again, whatever becomes   *)
(* of the insert.  Every call into the client library either succeeds or   *)
(* raises a database Error; a call that fails on the connection (cursor,   *)
(* execute, fetch, commit, rollback, start_transaction) may find or leave  *)
(* the connection lost.                                                    *)
(***************************************************************************)
EXTENDS Integers, Sequences, FiniteSets, TLC

VARIABLES
    env,    \* per caller: the server it talks to and what it is allowed to call
    db,     \* per server: the committed table, a function key -> row
    auto,   \* per server: the AUTO_INCREMENT counter of the table, the next generated key
    op,     \* per caller: the public operation in progress and its arguments
    pc,     \* per caller: the position in the code
    call,   \* per caller: the arguments of the running execute_query / execute_many / get_cursor
    gc,     \* per caller: connection and cursor of the running get_cursor scope
    tx,     \* per caller: connection of the running transaction scope
    exc,    \* per caller: the exception that is propagating
    ret,    \* per caller: the value returned by the last call
    loc,    \* per caller: local variables of batch_update and paginate
    hist,   \* per caller: history of the public operation (what was issued, what became visible)
    seen    \* per caller: the committed table its last statement found while another caller's batch ran

vars == <<env, db, auto, op, pc, call, gc, tx, exc, ret, loc, hist, seen>>

Procs == DOMAIN env

\* the callers of a specification: one alone, or two side by side
Solo == {1}

Pair == {1, 2}

(***************************************************************************)
(* Bounds of the model.                                                    *)
(***************************************************************************)
MaxKey == 2         \* primary keys are 1..MaxKey
MaxBatch == 2       \* records in one insert list / batch_update list
MaxBlock == 2       \* statements a caller's block issues in one scope
MaxLeak == 1        \* a caller starts no new operation once it leaked more connections
MaxRows == 26       \* rows of the table that paginate reads
MaxPage == 4        \* page numbers are 1..MaxPage
MaxPerPage == 11    \* page sizes are 1..MaxPerPage
MaxName == 2        \* characters of a table name given to drop_table / get_table_info
MaxLimit == 2       \* limit and offset given to select are 0..MaxLimit, or None

Keys == 1 .. MaxKey
Vals == {0, 1}
None == -1          \* Python's None where the model wants an integer

(***************************************************************************)
(* Python dicts: a sequence of <<field, value>> pairs in insertion order.  *)
(***************************************************************************)
DictKeys(d) == [i \in 1 .. Len(d) |-> d[i][1]]

DictValues(d) == [i \in 1 .. Len(d) |-> d[i][2]]

DictHas(d, f) == \E i \in 1 .. Len(d) : d[i][1] = f

DictGet(d, f) == d[CHOOSE i \in 1 .. Len(d) : d[i][1] = f][2]

\* dict.pop(f): the mapping without field f
DictPop(d, f) == SelectSeq(d, LAMBDA pr : pr[1] # f)

\* d[f] = v: in place when f is present, appended at the end otherwise
DictSet(d, f, v) ==
    IF DictHas(d, f)
    THEN [i \in 1 .. Len(d) |-> IF d[i][1] = f THEN <<f, v>> ELSE d[i]]
    ELSE Append(d, <<f, v>>)

\* the field-to-value pairs of a mapping, whatever their order
DictItems(d) == {d[i] : i \in 1 .. Len(d)}

(***************************************************************************)
(* Python strings: a sequence of characters.  Of the characters of the      *)
(* model, str.isalnum holds for the letter and the digit.                   *)
(***************************************************************************)
Chars == {"t", "1", "_", "-", ";", " "}

Strings == UNION {[1 .. n -> Chars] : n \in 0 .. MaxName}

\* s.replace(c, ''): s without the occurrences of the character c
Replace(s, c) == SelectSeq(s, LAMBDA x : x # c)

\* s.isalnum(): every character is alphanumeric and there is at least one character
IsAlnum(s) == s # <<>> /\ \A i \in 1 .. Len(s) : s[i] \in {"t", "1"}

\* the test without str.isalnum's "at least one character"
ValidTableName_AllOf(table_name) ==
    LET s == Replace(Replace(table_name, "_"), "-")
    IN \A i \in 1 .. Len(s) : s[i] \in {"t", "1"}

\* table_name.replace('_', '').replace('-', '').isalnum(), lines 206 and 212
ValidTableName(table_name) == IsAlnum(Replace(Replace(table_name, "_"), "-"))

(***************************************************************************)
(* SQL text.  A statement is a record of the parts the code concatenates;  *)
(* a clause that the code does not append is absent ("" or None).          *)
(***************************************************************************)
NoQuery ==
    [verb |-> "", table |-> "", cols |-> <<>>, nph |-> 0, where |-> "",
     ondup |-> <<>>, order |-> "", limit |-> None, offset |-> None,
     clauses |-> <<>>]      \* the keywords of the clauses select appended, in order

\* f"INSERT INTO {table} ({columns}) VALUES ({placeholders})" [+ ON DUPLICATE KEY UPDATE]
\* on_duplicate is the list of the columns c of its "c = VALUES(c)" items; None, like
\* the empty string, fails `if on_duplicate:` and is the empty list here
InsertQuery(table, first, on_duplicate) ==
    [NoQuery EXCEPT !.verb = "INSERT", !.table = table, !.cols = DictKeys(first),
                    !.nph = Len(first), !.ondup = on_duplicate]

\* f"UPDATE {table} SET {set_clause} WHERE {where}"
UpdateQuery(table, data, where) ==
    [NoQuery EXCEPT !.verb = "UPDATE", !.table = table, !.cols = DictKeys(data),
                    !.nph = Len(data), !.where = where]

\* query_params = list(data.values()) + (params or [])
UpdateParams(data, params) == DictValues(data) \o params

\* f"SELECT 1 FROM {table} WHERE {where} LIMIT 1"
ExistsQuery(table, where) ==
    [NoQuery EXCEPT !.verb = "SELECT 1", !.table = table, !.where = where, !.limit = 1]

\* f"SELECT COUNT(*) FROM {table}" [+ WHERE]
CountQuery(table, where) ==
    [NoQuery EXCEPT !.verb = "SELECT COUNT(*)", !.table = table, !.where = where]

\* `if limit:` / `if offset:`: the clause is appended when the argument is truthy
Truthy(n) == n # None /\ n # 0

\* f"SELECT {columns} FROM {table}" [+ WHERE] [+ ORDER BY] [+ LIMIT] [+ OFFSET],
\* lines 134-147; an absent where or order_by (None) is the empty string here
SelectQuery(table, where, order_by, limit, offset) ==
    LET q0 == [NoQuery EXCEPT !.verb = "SELECT", !.table = table]
        q1 == IF where # ""
              THEN [q0 EXCEPT !.where = where, !.clauses = Append(@, "WHERE")] ELSE q0
        q2 == IF order_by # ""
              THEN [q1 EXCEPT !.order = order_by, !.clauses = Append(@, "ORDER BY")] ELSE q1
        q3 == IF Truthy(limit)
              THEN [q2 EXCEPT !.limit = limit, !.clauses = Append(@, "LIMIT")] ELSE q2
    IN IF Truthy(offset)
       THEN [q3 EXCEPT !.offset = offset, !.clauses = Append(@, "OFFSET")] ELSE q3

\* f"DELETE FROM {table} WHERE {where}"
DeleteQuery(table, where) ==
    [NoQuery EXCEPT !.verb = "DELETE", !.table = table, !.where = where]

\* "SELECT 1", the probe of test_connection
ProbeQuery == [NoQuery EXCEPT !.verb = "SELECT 1"]

\* "SELECT LAST_INSERT_ID()"
LastInsertIdQuery == [NoQuery EXCEPT !.verb = "SELECT LAST_INSERT_ID()"]

\* f"DESCRIBE {table_name}"
DescribeQuery(table_name) == [NoQuery EXCEPT !.verb = "DESCRIBE", !.table = table_name]

\* f"DROP TABLE IF EXISTS {table_name}"
DropQuery(table_name) ==
    [NoQuery EXCEPT !.verb = "DROP TABLE IF EXISTS", !.table = table_name]

(***************************************************************************)
(* The engine: one table whose rows have the primary key id, a field v and *)
(* the field deleted_at.  A table is a function from the keys present to    *)
(* their rows.                                                             *)
(***************************************************************************)
\* a row as the column defaults make it
DefaultRow == [v |-> 0, deleted_at |-> "NULL"]

\* what the server's NOW() yields during the call
Now == "2026-01-01 00:00:00"

EmptyTable == [k \in {} |-> DefaultRow]

\* the name of the table, as the characters drop_table / get_table_info are given
TableName == <<"t">>

\* the state of a server whose table was dropped: the one value that is no table (no
\* row of a table has the key 0)
NoTable == [k \in {0} |-> DefaultRow]

RECURSIVE Ascending(_)
\* the keys of a set in ascending order (the order a primary-key scan returns)
Ascending(S) ==
    IF S = {} THEN <<>>
    ELSE LET m == CHOOSE x \in S : \A y \in S : x <= y
         IN <<m>> \o Ascending(S \ {m})

HasCol(cols, c) == \E i \in 1 .. Len(cols) : cols[i] = c

\* the parameter bound to the placeholder of column c
ParamOf(cols, params, c) == params[CHOOSE i \in 1 .. Len(cols) : cols[i] = c]

\* the WHERE fragment "<col> = %s" with its bound parameter wp; no fragment matches every row
Matches(k, row, where, wp) ==
    CASE where = "" -> TRUE
      [] where = "id" -> k = wp
      [] where = "v" -> row.v = wp
      [] OTHER -> FALSE

Matching(t, where, wp) == {k \in DOMAIN t : Matches(k, t[k], where, wp)}

\* one buffered write of a connection: put a row under key k, or delete key k
Put(k, row) == [k |-> k, del |-> FALSE, row |-> row]

Del(k) == [k |-> k, del |-> TRUE, row |-> DefaultRow]

ApplyWrite(t, w) ==
    IF w.del
    THEN [k \in DOMAIN t \ {w.k} |-> t[k]]
    ELSE [k \in DOMAIN t \cup {w.k} |-> IF k = w.k THEN w.row ELSE t[k]]

RECURSIVE ApplyLog(_, _)
\* the table after the writes of a log, oldest first
ApplyLog(t, log) ==
    IF log = <<>> THEN t ELSE ApplyLog(ApplyWrite(t, Head(log)), Tail(log))

\* a result list in the order that ORDER BY asks for
Ordered(rows, order) ==
    IF order = "id DESC" THEN [i \in 1 .. Len(rows) |-> rows[Len(rows) + 1 - i]] ELSE rows

\* rows[offset : offset + limit] of a result list
Window(rows, limit, offset) ==
    LET o == IF offset = None THEN 0 ELSE offset
        n == IF limit = None THEN Len(rows) ELSE limit
        hi == IF o + n < Len(rows) THEN o + n ELSE Len(rows)
    IN [i \in 1 .. (IF hi > o THEN hi - o ELSE 0) |-> rows[o + i]]

\* the AUTO_INCREMENT counter of a table that was loaded with the rows t and has seen
\* no other insert: one more than its greatest key
AutoIncrement(t) ==
    IF DOMAIN t = {} THEN 1 ELSE (CHOOSE x \in DOMAIN t : \A y \in DOMAIN t : y <= x) + 1

Answer(failed, writes, rows, rowcount) ==
    [failed |-> failed, writes |-> writes, rows |-> rows, rowcount |-> rowcount]

\* a name the server takes as an unquoted identifier: letters, digits and underscores,
\* not digits alone; a hyphen cannot stand in it
Identifier(name) ==
    /\ \A i \in 1 .. Len(name) : name[i] \in {"t", "1", "_"}
    /\ \E i \in 1 .. Len(name) : name[i] # "1"

\* the statements that read or write the rows of the table
NeedsTable(q) ==
    \/ q.verb \in {"INSERT", "UPDATE", "DELETE", "SELECT", "SELECT COUNT(*)"}
    \/ q.verb = "SELECT 1" /\ q.where # ""

\* DDL commits implicitly: the session's pending writes are committed and the
\* statement takes effect in the committed state as it runs, whatever commit() or
\* rollback() does afterwards
Implicit(q) == q.verb = "DROP TABLE IF EXISTS"

\* the committed state after DROP TABLE IF EXISTS table_name run by a session that saw t
Dropped(t, table_name) == IF table_name = TableName THEN NoTable ELSE t

\* what the server answers to a statement run against the table t that the connection sees
Exec(q, params, t, counter) ==
    CASE NeedsTable(q) /\ t = NoTable ->
           Answer(TRUE, <<>>, <<>>, None)                        \* no such table
      [] q.verb = "INSERT" ->
           IF Len(params) # q.nph
           THEN Answer(TRUE, <<>>, <<>>, None)
           ELSE LET k == IF HasCol(q.cols, "id") THEN ParamOf(q.cols, params, "id")
                         ELSE counter     \* the key AUTO_INCREMENT generates
                    row == [v |-> IF HasCol(q.cols, "v")
                                  THEN ParamOf(q.cols, params, "v") ELSE DefaultRow.v,
                            deleted_at |-> IF HasCol(q.cols, "deleted_at")
                                           THEN ParamOf(q.cols, params, "deleted_at")
                                           ELSE DefaultRow.deleted_at]
                    \* ON DUPLICATE KEY UPDATE c = VALUES(c): the existing row takes the
                    \* values of the listed columns from the row that was to be inserted
                    upd == [v |-> IF HasCol(q.ondup, "v") THEN row.v ELSE t[k].v,
                            deleted_at |-> IF HasCol(q.ondup, "deleted_at")
                                           THEN row.deleted_at ELSE t[k].deleted_at]
                IN IF k \notin DOMAIN t
                   THEN Answer(FALSE, <<Put(k, row)>>, <<>>, 1)
                   ELSE IF q.ondup = <<>>
                   THEN Answer(TRUE, <<>>, <<>>, None)           \* duplicate key
                   ELSE IF upd = t[k]
                   THEN Answer(FALSE, <<>>, <<>>, 0)             \* row left as it is
                   ELSE Answer(FALSE, <<Put(k, upd)>>, <<>>, 2)  \* row updated
      [] q.verb = "UPDATE" ->
           IF Len(params) # q.nph + 1
           THEN Answer(TRUE, <<>>, <<>>, None)
           ELSE LET hit == Ascending(Matching(t, q.where, params[q.nph + 1]))
                    \* a bound parameter is stored as the value it is, never run as SQL;
                    \* the rows affected are the rows changed (no CLIENT_FOUND_ROWS flag
                    \* in the connection parameters, lines 27-33), not the rows matched
                    new(k) == [v |-> IF HasCol(q.cols, "v")
                                     THEN ParamOf(q.cols, params, "v") ELSE t[k].v,
                               deleted_at |-> IF HasCol(q.cols, "deleted_at")
                                              THEN ParamOf(q.cols, params, "deleted_at")
                                              ELSE t[k].deleted_at]
                    changed == SelectSeq(hit, LAMBDA k : new(k) # t[k])
                IN Answer(FALSE, [i \in 1 .. Len(changed) |-> Put(changed[i], new(changed[i]))],
                          <<>>, Len(changed))
      [] q.verb = "SELECT 1" ->
           LET hit == Ascending(Matching(t, q.where, IF params = <<>> THEN None ELSE params[1]))
           IN IF q.table = ""
              THEN Answer(FALSE, <<>>, <<<<1>>>>, None)             \* no FROM: one row
              ELSE Answer(FALSE, <<>>, Window([i \in 1 .. Len(hit) |-> <<1>>],
                                              q.limit, q.offset), None)
      [] q.verb = "SELECT COUNT(*)" ->
           LET hit == Matching(t, q.where, IF params = <<>> THEN None ELSE params[1])
           IN Answer(FALSE, <<>>, <<<<Cardinality(hit)>>>>, None)
      [] q.verb = "SELECT" ->
           LET hit == Ordered(Ascending(Matching(t, q.where, IF params = <<>> THEN None
                                                                 ELSE params[1])),
                              q.order)
           IN IF q.offset # None /\ q.limit = None
              THEN Answer(TRUE, <<>>, <<>>, None)                \* OFFSET needs LIMIT
              ELSE Answer(FALSE, <<>>,
                          Window([i \in 1 .. Len(hit) |->
                                     <<hit[i], t[hit[i]].v, t[hit[i]].deleted_at>>],
                                 q.limit, q.offset), None)
      [] q.verb = "DELETE" ->
           IF Len(params) # 1
           THEN Answer(TRUE, <<>>, <<>>, None)
           ELSE LET hit == Ascending(Matching(t, q.where, params[1]))
                IN Answer(FALSE, [i \in 1 .. Len(hit) |-> Del(hit[i])], <<>>, Len(hit))
      [] q.verb = "DESCRIBE" ->
           IF q.table = TableName /\ t # NoTable
           THEN Answer(FALSE, <<>>, <<<<"id">>, <<"v">>, <<"deleted_at">>>>, None)
           ELSE Answer(TRUE, <<>>, <<>>, None)                   \* no such table
      [] q.verb = "DROP TABLE IF EXISTS" ->
           IF Identifier(q.table)
           THEN Answer(FALSE, <<>>, <<>>, 0)    \* the table goes at once: see Implicit
           ELSE Answer(TRUE, <<>>, <<>>, None)  \* syntax error
      [] OTHER -> Answer(TRUE, <<>>, <<>>, None)

\* the AUTO_INCREMENT counter after a statement that the server accepted: an insert
\* moves it past the key of the row it inserts, and neither a rollback nor a DELETE
\* moves it back; with the table the counter goes too
NextAuto(counter, q, a) ==
    IF Implicit(q) /\ q.table = TableName THEN 1
    ELSE IF q.verb = "INSERT" /\ a.writes # <<>> /\ a.writes[1].k >= counter
    THEN a.writes[1].k + 1
    ELSE counter

\* the key a statement generated: that of an INSERT without an id, or 0
Generated(q, a) ==
    IF q.verb = "INSERT" /\ ~HasCol(q.cols, "id") /\ ~a.failed THEN a.writes[1].k ELSE 0

(***************************************************************************)
(* State of one caller.                                                    *)
(***************************************************************************)
\* a connection (and, in get_cursor, its cursor) with what was done on it
FreshSlot ==
    [conn |-> "none",       \* none | open | closed | lost
     cursor |-> "none",     \* none | open | closed
     log |-> <<>>,          \* writes executed and not yet committed
     done |-> 0,            \* statements executed successfully on it
     rc |-> None,           \* cursor.rowcount
     rows |-> <<>>,         \* the result set waiting to be fetched
     last_id |-> 0,         \* LAST_INSERT_ID() of the session: the key it generated last
     commits |-> 0,         \* calls of commit()
     rollbacks |-> 0,       \* calls of rollback()
     closes |-> 0]          \* calls of close() on the connection

NoExc == [kind |-> "none", at |-> ""]

Raised(kind, at) == [kind |-> kind, at |-> at]

NoCall == [kind |-> "none", query |-> NoQuery, params |-> <<>>, fetch |-> FALSE]

NoPage ==
    [page |-> 0, per_page |-> 0, total |-> 0, pages |-> 0, has_next |-> FALSE,
     has_prev |-> FALSE]

NoRet == [kind |-> "none", n |-> None, rows |-> <<>>, b |-> FALSE, page |-> NoPage]

NoLoc == [i |-> 0, total |-> 0, updates |-> <<>>, key |-> None, phase |-> ""]

NoOp ==
    [name |-> "", data |-> [kind |-> "list", val |-> <<>>], where |-> "", wp |-> None,
     updates |-> <<>>, page |-> 0, per_page |-> 0, table |-> <<>>, soft |-> FALSE,
     order_by |-> "", limit |-> None, offset |-> None]

\* the history of one public operation; open outlives the operation
NoHist ==
    [issued |-> 0,          \* statements the operation executed successfully
     vis |-> 0,             \* of these, the statements whose effects were committed
     opened |-> 0,          \* connections the operation opened
     open |-> 0,            \* connections of this caller that are open on the server
     first |-> NoExc,       \* the first exception raised in the operation
     prev |-> {},           \* the records that the operation before it inserted
     after |-> FALSE,       \* exists: the operation before it inserted a matching record
     before |-> EmptyTable, \* the committed table when the operation started
     gen |-> {},            \* the keys that this caller's inserts generated so far
     queries |-> <<>>]      \* the statements sent, in order, with their parameters
                            \* and the affected-row count the server reported

World(p) == env[p].world

(***************************************************************************)
(* get_cursor (src/database.py:60-81), with execute_query and execute_many *)
(* as the blocks that run inside it.                                       *)
(***************************************************************************)
\* `except Error as err:` of get_cursor
GetCursorCatches(kind) == kind = "Error"

\* where an exception raised inside get_cursor's try goes: the except clause, whose
\* rollback needs `if connection:`, or straight to the finally clause
GcAfterRaise(kind, slot) ==
    IF GetCursorCatches(kind) /\ slot.conn # "none" THEN "gc_rollback" ELSE "gc_finally"

\* the block that runs under `with self.get_cursor(...)`
BodyPc(kind) ==
    CASE kind = "query" -> "gc_execute"
      [] kind = "many" -> "gc_many"
      [] OTHER -> "gc_block"

\* a commit whatever fetch says
AfterExecutePc_AlwaysCommit(fetch) == "gc_commit"

\* `if fetch:` of execute_query: fetch the rows, or else commit
AfterExecutePc(fetch) == IF fetch THEN "gc_fetch" ELSE "gc_commit"

\* a commit after every tuple instead of one commit after the last
AfterTuplePc_CommitEach(done, param_list) == "gc_commit"

\* executemany runs the statement for every tuple, then execute_many commits
AfterTuplePc(done, param_list) ==
    IF done = Len(param_list) THEN "gc_commit" ELSE "gc_many"

\* the records of a batch that have a field besides the key
NonKeyRecords(updates) == {i \in 1 .. Len(updates) : Len(DictPop(updates[i], "id")) > 0}

\* what a read at this moment observes of the other callers of the same server that are
\* inside batch_update: <<the caller, the committed table>>
Observed(p) ==
    {<<q, db[World(p)]>> :
        q \in {r \in Procs \ {p} : /\ World(r) = World(p)
                                   /\ op[r].name = "batch_update"
                                   /\ pc[r] \notin {"idle", "done"}}}

RaiseIn(p, kind, at) ==
    /\ exc' = [exc EXCEPT ![p] = Raised(kind, at)]
    /\ hist' = [hist EXCEPT ![p].first =
                    IF @.kind = "none" THEN Raised(kind, at) ELSE @]

\* self._create_connection(database), line 66
GcConnect(p) ==
    /\ pc[p] = "gc_connect"
    /\ \/ /\ gc' = [gc EXCEPT ![p] = [FreshSlot EXCEPT !.conn = "open"]]
          /\ hist' = [hist EXCEPT ![p].open = @ + 1, ![p].opened = @ + 1]
          /\ pc' = [pc EXCEPT ![p] = "gc_cursor"]
          /\ exc' = exc
       \/ /\ gc' = [gc EXCEPT ![p] = FreshSlot]
          /\ RaiseIn(p, "Error", "connect")
          /\ pc' = [pc EXCEPT ![p] = GcAfterRaise("Error", FreshSlot)]
    /\ UNCHANGED <<env, db, auto, op, call, tx, ret, loc, seen>>

\* a call on the cursor or the connection fails: the server refuses it, or the
\* connection is lost (is_connected() is false from then on)
StatementFails(p, at, lost) ==
    /\ gc' = [gc EXCEPT ![p].conn = IF lost THEN "lost" ELSE @,
                        ![p].log = IF lost THEN <<>> ELSE @]
    /\ exc' = [exc EXCEPT ![p] = Raised("Error", at)]
    /\ hist' = [hist EXCEPT ![p].first = IF @.kind = "none" THEN Raised("Error", at) ELSE @,
                            ![p].open = IF lost THEN @ - 1 ELSE @]
    /\ pc' = [pc EXCEPT ![p] = GcAfterRaise("Error", gc[p])]

\* connection.cursor(dictionary=dictionary), line 67
GcCursor(p) ==
    /\ pc[p] = "gc_cursor"
    /\ \/ /\ gc' = [gc EXCEPT ![p].cursor = "open"]
          /\ pc' = [pc EXCEPT ![p] = BodyPc(call[p].kind)]
          /\ UNCHANGED <<exc, hist>>
       \/ \E lost \in BOOLEAN : StatementFails(p, "cursor", lost)
    /\ UNCHANGED <<env, db, auto, op, call, tx, ret, loc, seen>>

\* the last generated key of every session of the caller instead of this session's
SessionLastId_AnySession(slot, h) ==
    IF h.gen = {} THEN 0 ELSE CHOOSE x \in h.gen : \A y \in h.gen : y <= x

\* LAST_INSERT_ID() is kept per session: a connection that mysql.connector.connect
\* (line 50) has just opened answers 0
SessionLastId(slot, h) == slot.last_id

\* what the server answers on the session of a connection
ExecOn(slot, h, q, params, t, counter) ==
    IF q.verb = "SELECT LAST_INSERT_ID()"
    THEN Answer(FALSE, <<>>, <<<<SessionLastId(slot, h)>>>>, None)
    ELSE Exec(q, params, t, counter)

\* the cursor runs statement q with params and the server accepts it
StatementRuns(p, q, params, next) ==
    LET a == ExecOn(gc[p], hist[p], q, params, ApplyLog(db[World(p)], gc[p].log),
                    auto[World(p)])
        key == Generated(q, a)
    IN /\ ~a.failed
       /\ db' = IF Implicit(q)
                THEN [db EXCEPT ![World(p)] = Dropped(ApplyLog(@, gc[p].log), q.table)]
                ELSE db
       /\ auto' = [auto EXCEPT ![World(p)] = NextAuto(@, q, a)]
       /\ gc' = [gc EXCEPT ![p].log = IF Implicit(q) THEN <<>> ELSE @ \o a.writes,
                           ![p].done = @ + 1,
                           ![p].rows = a.rows,
                           ![p].last_id = IF key = 0 \/ (call[p].kind = "many" /\ @ # 0)
                                          THEN @ ELSE key,
                           ![p].rc = IF a.rowcount = None THEN Len(a.rows)
                                     ELSE IF gc[p].rc = None \/ call[p].kind # "many"
                                          THEN a.rowcount ELSE gc[p].rc + a.rowcount]
       /\ hist' = [hist EXCEPT ![p].issued = @ + 1,
                               ![p].gen = IF key = 0 THEN @ ELSE @ \cup {key},
                               ![p].queries = Append(@, [q |-> q, params |-> params,
                                                          rc |-> a.rowcount])]
       /\ seen' = [seen EXCEPT ![p] = Observed(p)]
       /\ pc' = [pc EXCEPT ![p] = next]
       /\ exc' = exc

\* cursor.execute(query, params or ()), line 87
GcExecute(p) ==
    /\ pc[p] = "gc_execute"
    /\ \/ StatementRuns(p, call[p].query, call[p].params, AfterExecutePc(call[p].fetch))
       \/ \E lost \in BOOLEAN : StatementFails(p, "execute", lost) /\ seen' = seen /\ db' = db /\ auto' = auto
    /\ UNCHANGED <<env, op, call, tx, ret, loc>>

\* cursor.executemany(query, param_list), line 101: one tuple of the list
GcMany(p) ==
    /\ pc[p] = "gc_many"
    /\ \/ StatementRuns(p, call[p].query, call[p].params[gc[p].done + 1],
                        AfterTuplePc(gc[p].done + 1, call[p].params))
       \/ \E lost \in BOOLEAN : StatementFails(p, "executemany", lost) /\ seen' = seen /\ db' = db /\ auto' = auto
    /\ UNCHANGED <<env, op, call, tx, ret, loc>>

\* results = cursor.fetchall(); return results, lines 90-92
GcFetch(p) ==
    /\ pc[p] = "gc_fetch"
    /\ \/ /\ ret' = [ret EXCEPT ![p] = [NoRet EXCEPT !.kind = "rows", !.rows = gc[p].rows]]
          /\ gc' = [gc EXCEPT ![p].rows = <<>>]
          /\ pc' = [pc EXCEPT ![p] = "gc_finally"]
          /\ UNCHANGED <<exc, hist>>
       \/ /\ \E lost \in BOOLEAN : StatementFails(p, "fetchall", lost)
          /\ ret' = ret
    /\ UNCHANGED <<env, db, auto, op, call, tx, loc, seen>>

\* connection.commit(); return cursor.rowcount, lines 94-97 and 102-105
GcCommit(p) ==
    /\ pc[p] = "gc_commit"
    /\ \/ /\ db' = [db EXCEPT ![World(p)] = ApplyLog(@, gc[p].log)]
          /\ gc' = [gc EXCEPT ![p].log = <<>>, ![p].commits = @ + 1]
          /\ hist' = [hist EXCEPT ![p].vis = @ + gc[p].done]
          /\ ret' = [ret EXCEPT ![p] = [NoRet EXCEPT !.kind = "int", !.n = gc[p].rc]]
          /\ pc' = [pc EXCEPT ![p] = "gc_finally"]
          /\ exc' = exc
       \/ /\ \E lost \in BOOLEAN :
                /\ gc' = [gc EXCEPT ![p].conn = IF lost THEN "lost" ELSE @,
                                    ![p].log = IF lost THEN <<>> ELSE @,
                                    ![p].commits = @ + 1]
                /\ hist' = [hist EXCEPT
                              ![p].first = IF @.kind = "none" THEN Raised("Error", "commit")
                                           ELSE @,
                              ![p].open = IF lost THEN @ - 1 ELSE @]
          /\ exc' = [exc EXCEPT ![p] = Raised("Error", "commit")]
          /\ pc' = [pc EXCEPT ![p] = GcAfterRaise("Error", gc[p])]
          /\ UNCHANGED <<db, ret>>
    /\ UNCHANGED <<env, auto, op, call, tx, loc, seen>>

\* connection.rollback(); raise, lines 72-74: a rollback that fails raises its own
\* Error, and the connection may be lost at that call
GcRollback(p) ==
    /\ pc[p] = "gc_rollback"
    /\ \/ /\ gc[p].conn = "open"
          /\ gc' = [gc EXCEPT ![p].log = <<>>, ![p].rollbacks = @ + 1]
          /\ UNCHANGED <<exc, hist>>
       \/ \E lost \in {l \in BOOLEAN : l => gc[p].conn = "open"} :
             /\ gc' = [gc EXCEPT ![p].rollbacks = @ + 1,
                                 ![p].conn = IF lost THEN "lost" ELSE @,
                                 ![p].log = IF lost THEN <<>> ELSE @]
             /\ exc' = [exc EXCEPT ![p] = Raised("Error", "rollback")]
             /\ hist' = [hist EXCEPT
                           ![p].first = IF @.kind = "none" THEN Raised("Error", "rollback")
                                        ELSE @,
                           ![p].open = IF lost THEN @ - 1 ELSE @]
    /\ pc' = [pc EXCEPT ![p] = "gc_finally"]
    /\ UNCHANGED <<env, db, auto, op, call, tx, ret, loc, seen>>

\* `if cursor: cursor.close()`, lines 77-78: when close raises, the rest of the finally
\* clause is skipped
GcFinally(p) ==
    /\ pc[p] = "gc_finally"
    /\ IF gc[p].cursor = "open"
       THEN \/ /\ gc' = [gc EXCEPT ![p].cursor = "closed"]
               /\ pc' = [pc EXCEPT ![p] = "gc_close"]
               /\ UNCHANGED <<exc, hist>>
            \/ /\ RaiseIn(p, "Error", "cursor.close")
               /\ pc' = [pc EXCEPT ![p] = "gc_return"]
               /\ gc' = gc
       ELSE /\ pc' = [pc EXCEPT ![p] = "gc_close"]
            /\ UNCHANGED <<gc, exc, hist>>
    /\ UNCHANGED <<env, db, auto, op, call, tx, ret, loc, seen>>

\* `if connection:` without the is_connected() test
StillConnected_AnyConnection(slot) == slot.conn # "none"

\* `connection and connection.is_connected()`, lines 79 and 244
StillConnected(slot) == slot.conn = "open"

\* `if connection and connection.is_connected(): connection.close()`, lines 79-81
GcClose(p) ==
    /\ pc[p] = "gc_close"
    /\ IF StillConnected(gc[p])
       THEN /\ gc' = [gc EXCEPT ![p].conn = "closed", ![p].log = <<>>, ![p].closes = @ + 1]
            /\ hist' = [hist EXCEPT ![p].open = @ - 1]
       ELSE UNCHANGED <<gc, hist>>
    /\ pc' = [pc EXCEPT ![p] = "gc_return"]
    /\ UNCHANGED <<env, db, auto, op, call, tx, exc, ret, loc, seen>>

(***************************************************************************)
(* A caller's own block under `with db.get_cursor() as (connection,        *)
(* cursor):`.  It runs statements on the cursor and may raise anything.    *)
(***************************************************************************)
Records == {<<<<"id", k>>, <<"v", x>>>> : k \in Keys, x \in Vals}

\* statements that write: UPDATE t SET v = %s WHERE id = %s, INSERT INTO t (id, v) ...
WriteStmts ==
    {[query |-> UpdateQuery("t", <<<<"v", x>>>>, "id"), params |-> <<x, k>>] :
        k \in Keys, x \in Vals}
    \cup {[query |-> InsertQuery("t", r, <<>>), params |-> DictValues(r)] : r \in Records}

\* the data definition statement of the model: DROP TABLE IF EXISTS t
DdlStmts == {[query |-> DropQuery(TableName), params |-> <<>>]}

\* exceptions that are no database Error: an Exception subclass, or a BaseException
\* such as KeyboardInterrupt
OtherKinds == {"Exception", "BaseException"}

BlockExecute(p) ==
    /\ pc[p] = "gc_block"
    /\ gc[p].done < MaxBlock
    /\ \/ \E s \in WriteStmts : StatementRuns(p, s.query, s.params, "gc_block")
       \/ \E lost \in BOOLEAN : StatementFails(p, "execute", lost) /\ seen' = seen /\ db' = db /\ auto' = auto
    /\ UNCHANGED <<env, op, call, tx, ret, loc>>

BlockRaise(p) ==
    /\ pc[p] = "gc_block"
    /\ \E kind \in OtherKinds :
          /\ RaiseIn(p, kind, "block")
          /\ pc' = [pc EXCEPT ![p] = GcAfterRaise(kind, gc[p])]
    /\ UNCHANGED <<env, db, auto, op, call, gc, tx, ret, loc, seen>>

BlockEnd(p) ==
    /\ pc[p] = "gc_block"
    /\ pc' = [pc EXCEPT ![p] = "gc_finally"]
    /\ UNCHANGED <<env, db, auto, op, call, gc, tx, exc, ret, loc, hist, seen>>

(***************************************************************************)
(* transaction (src/database.py:229-245).                                  *)
(***************************************************************************)
\* `except Exception as err:` of transaction
TransactionCatches(kind) == kind \in {"Error", "Exception"}

\* where an exception raised inside transaction's try goes: the except clause, whose
\* rollback needs `if connection:`, or straight to the finally clause
TxAfterRaise(kind, slot) ==
    IF TransactionCatches(kind) /\ slot.conn # "none" THEN "tx_rollback" ELSE "tx_close"

\* the block that runs under `with self.transaction(...)`
TxBodyPc(name) == IF name = "batch_update" THEN "bu_loop" ELSE "tx_block"

\* self._create_connection(database), line 233
TxConnect(p) ==
    /\ pc[p] = "tx_connect"
    /\ \/ /\ tx' = [tx EXCEPT ![p] = [FreshSlot EXCEPT !.conn = "open"]]
          /\ hist' = [hist EXCEPT ![p].open = @ + 1, ![p].opened = @ + 1]
          /\ pc' = [pc EXCEPT ![p] = "tx_start"]
          /\ exc' = exc
       \/ /\ tx' = [tx EXCEPT ![p] = FreshSlot]
          /\ RaiseIn(p, "Error", "connect")
          /\ pc' = [pc EXCEPT ![p] = TxAfterRaise("Error", FreshSlot)]
    /\ UNCHANGED <<env, db, auto, op, call, gc, ret, loc, seen>>

\* connection.start_transaction(), line 234
TxStart(p) ==
    /\ pc[p] = "tx_start"
    /\ \/ /\ pc' = [pc EXCEPT ![p] = TxBodyPc(op[p].name)]
          /\ UNCHANGED <<tx, exc, hist>>
       \/ \E lost \in BOOLEAN :
             /\ tx' = [tx EXCEPT ![p].conn = IF lost THEN "lost" ELSE @]
             /\ exc' = [exc EXCEPT ![p] = Raised("Error", "start_transaction")]
             /\ hist' = [hist EXCEPT
                           ![p].first = IF @.kind = "none"
                                        THEN Raised("Error", "start_transaction") ELSE @,
                           ![p].open = IF lost THEN @ - 1 ELSE @]
             /\ pc' = [pc EXCEPT ![p] = TxAfterRaise("Error", tx[p])]
    /\ UNCHANGED <<env, db, auto, op, call, gc, ret, loc, seen>>

\* a statement of the caller's block, run on the yielded connection
TxBlockExecute(p) ==
    /\ pc[p] = "tx_block"
    /\ tx[p].done < MaxBlock
    /\ \/ \E s \in WriteStmts :
            LET a == Exec(s.query, s.params, ApplyLog(db[World(p)], tx[p].log),
                          auto[World(p)])
            IN /\ ~a.failed
               /\ auto' = [auto EXCEPT ![World(p)] = NextAuto(@, s.query, a)]
               /\ tx' = [tx EXCEPT ![p].log = @ \o a.writes, ![p].done = @ + 1]
               /\ hist' = [hist EXCEPT ![p].issued = @ + 1,
                                       ![p].queries = Append(@, [q |-> s.query,
                                                                 params |-> s.params,
                                                                 rc |-> a.rowcount])]
               /\ UNCHANGED <<pc, exc>>
       \/ \E lost \in BOOLEAN :
            /\ tx' = [tx EXCEPT ![p].conn = IF lost THEN "lost" ELSE @,
                                ![p].log = IF lost THEN <<>> ELSE @]
            /\ exc' = [exc EXCEPT ![p] = Raised("Error", "execute")]
            /\ hist' = [hist EXCEPT
                          ![p].first = IF @.kind = "none" THEN Raised("Error", "execute")
                                       ELSE @,
                          ![p].open = IF lost THEN @ - 1 ELSE @]
            /\ pc' = [pc EXCEPT ![p] = TxAfterRaise("Error", tx[p])]
            /\ auto' = auto
    /\ UNCHANGED <<env, db, op, call, gc, ret, loc, seen>>

TxBlockRaise(p) ==
    /\ pc[p] = "tx_block"
    /\ \E kind \in OtherKinds :
          /\ RaiseIn(p, kind, "block")
          /\ pc' = [pc EXCEPT ![p] = TxAfterRaise(kind, tx[p])]
    /\ UNCHANGED <<env, db, auto, op, call, gc, tx, ret, loc, seen>>

TxBlockEnd(p) ==
    /\ pc[p] = "tx_block"
    /\ pc' = [pc EXCEPT ![p] = "tx_commit"]
    /\ UNCHANGED <<env, db, auto, op, call, gc, tx, exc, ret, loc, hist, seen>>

\* connection.commit(), line 236
TxCommit(p) ==
    /\ pc[p] = "tx_commit"
    /\ \/ /\ db' = [db EXCEPT ![World(p)] = ApplyLog(@, tx[p].log)]
          /\ tx' = [tx EXCEPT ![p].log = <<>>, ![p].commits = @ + 1]
          /\ hist' = [hist EXCEPT ![p].vis = @ + tx[p].done]
          /\ pc' = [pc EXCEPT ![p] = "tx_close"]
          /\ exc' = exc
       \/ /\ \E lost \in BOOLEAN :
                /\ tx' = [tx EXCEPT ![p].conn = IF lost THEN "lost" ELSE @,
                                    ![p].log = IF lost THEN <<>> ELSE @,
                                    ![p].commits = @ + 1]
                /\ hist' = [hist EXCEPT
                              ![p].first = IF @.kind = "none" THEN Raised("Error", "commit")
                                           ELSE @,
                              ![p].open = IF lost THEN @ - 1 ELSE @]
          /\ exc' = [exc EXCEPT ![p] = Raised("Error", "commit")]
          /\ pc' = [pc EXCEPT ![p] = TxAfterRaise("Error", tx[p])]
          /\ db' = db
    /\ UNCHANGED <<env, auto, op, call, gc, ret, loc, seen>>

\* connection.rollback(); raise, lines 240-242: a rollback that fails raises its own
\* Error, and the connection may be lost at that call
TxRollback(p) ==
    /\ pc[p] = "tx_rollback"
    /\ \/ /\ tx[p].conn = "open"
          /\ tx' = [tx EXCEPT ![p].log = <<>>, ![p].rollbacks = @ + 1]
          /\ UNCHANGED <<exc, hist>>
       \/ \E lost \in {l \in BOOLEAN : l => tx[p].conn = "open"} :
             /\ tx' = [tx EXCEPT ![p].rollbacks = @ + 1,
                                 ![p].conn = IF lost THEN "lost" ELSE @,
                                 ![p].log = IF lost THEN <<>> ELSE @]
             /\ exc' = [exc EXCEPT ![p] = Raised("Error", "rollback")]
             /\ hist' = [hist EXCEPT
                           ![p].first = IF @.kind = "none" THEN Raised("Error", "rollback")
                                        ELSE @,
                           ![p].open = IF lost THEN @ - 1 ELSE @]
    /\ pc' = [pc EXCEPT ![p] = "tx_close"]
    /\ UNCHANGED <<env, db, auto, op, call, gc, ret, loc, seen>>

\* `if connection and connection.is_connected(): connection.close()`, lines 244-245;
\* batch_update then returns total_affected (line 261)
TxClose(p) ==
    /\ pc[p] = "tx_close"
    /\ IF StillConnected(tx[p])
       THEN /\ tx' = [tx EXCEPT ![p].conn = "closed", ![p].log = <<>>, ![p].closes = @ + 1]
            /\ hist' = [hist EXCEPT ![p].open = @ - 1]
       ELSE UNCHANGED <<tx, hist>>
    /\ ret' = [ret EXCEPT ![p] =
                  IF op[p].name = "batch_update" /\ exc[p].kind = "none"
                  THEN [NoRet EXCEPT !.kind = "int", !.n = loc[p].total]
                  ELSE NoRet]
    /\ pc' = [pc EXCEPT ![p] = "done"]
    /\ UNCHANGED <<env, db, auto, op, call, gc, exc, loc, seen>>

(***************************************************************************)
(* The CRUD facade: what each public operation hands to the executor.      *)
(***************************************************************************)
Query(query, params, fetch) ==
    [kind |-> "query", query |-> query, params |-> params, fetch |-> fetch]

Many(query, param_list) ==
    [kind |-> "many", query |-> query, params |-> param_list, fetch |-> FALSE]

\* `if isinstance(data, dict): data = [data]`, lines 110-111
Normalise(data) ==
    IF data.kind = "dict" THEN [kind |-> "list", val |-> <<data.val>>] ELSE data

\* the parameters of the statement that inserts one record: tuple(record.values())
InsertParams(record) == DictValues(record)

\* the single insert run with execute_query's default fetch=True: never committed
InsertPlan_NoCommit(table, data, on_duplicate) ==
    LET d == Normalise(data).val
    IN IF d = <<>> THEN NoCall
       ELSE Query(InsertQuery(table, d[1], on_duplicate), InsertParams(d[1]), TRUE)

\* the route chosen by the type of the argument instead of the length of the list
InsertPlan_ByType(table, data, on_duplicate) ==
    IF data.kind = "dict"
    THEN Query(InsertQuery(table, data.val, on_duplicate), InsertParams(data.val), FALSE)
    ELSE IF data.val = <<>> THEN NoCall
    ELSE Many(InsertQuery(table, data.val[1], on_duplicate),
              [i \in 1 .. Len(data.val) |-> InsertParams(data.val[i])])

\* insert, lines 107-128: nothing for an empty list, execute_query for one record,
\* execute_many for several
InsertPlan(table, data, on_duplicate) ==
    LET d == Normalise(data).val
    IN IF d = <<>> THEN NoCall
       ELSE IF Len(d) = 1
       THEN Query(InsertQuery(table, d[1], on_duplicate), InsertParams(d[1]), FALSE)
       ELSE Many(InsertQuery(table, d[1], on_duplicate),
                 [i \in 1 .. Len(d) |-> InsertParams(d[i])])

\* upsert, lines 182-185: the columns of the "c = VALUES(c)" items are update_fields,
\* or every key of data when update_fields is None or empty
UpsertUpdates(data, update_fields) ==
    IF update_fields # <<>> THEN update_fields ELSE DictKeys(data)

\* upsert, line 187
UpsertPlan(table, data, update_fields) ==
    InsertPlan(table, [kind |-> "dict", val |-> data], UpsertUpdates(data, update_fields))

\* update, lines 151-156
UpdatePlan(table, data, where, params) ==
    Query(UpdateQuery(table, data, where), UpdateParams(data, params), FALSE)

\* delete, lines 158-164: the soft delete is an update whose data is
\* {'deleted_at': 'NOW()'}, the string 'NOW()' being the value of the field
DeletePlan(table, where, params, soft) ==
    IF soft
    THEN UpdatePlan(table, <<<<"deleted_at", "NOW()">>>>, where, params)
    ELSE Query(DeleteQuery(table, where), params, FALSE)

\* exists, lines 166-169
ExistsPlan(table, where, params) == Query(ExistsQuery(table, where), params, TRUE)

\* `return len(result) > 0`, line 170
ExistsResult(rows) == Len(rows) > 0

\* count, lines 172-177
CountPlan(table, where, params) == Query(CountQuery(table, where), params, TRUE)

\* `return result[0][0]`, line 178
CountResult(rows) == rows[1][1]

\* select, lines 130-149
SelectPlan(table, where, params, order_by, limit, offset) ==
    Query(SelectQuery(table, where, order_by, limit, offset), params, TRUE)

\* the offset of the page after the one asked for
PageOffset_NextPage(page, per_page) == page * per_page

\* test_connection, line 219
TestConnectionPlan == Query(ProbeQuery, <<>>, TRUE)

\* `return result[0][0] == 1`, line 220; an empty result raises IndexError there,
\* which the except clause of line 221 turns into False
ProbeResult(rows) == IF rows = <<>> THEN FALSE ELSE rows[1][1] = 1

\* `except Exception as err:` of test_connection
TestConnectionCatches(kind) == kind \in {"Error", "Exception"}

\* get_last_insert_id, line 226
LastInsertIdPlan == Query(LastInsertIdQuery, <<>>, TRUE)

\* `return result[0][0]`, line 227
LastInsertIdResult(rows) == rows[1][1]

\* get_table_info, lines 208-209
TableInfoPlan(table_name) == Query(DescribeQuery(table_name), <<>>, TRUE)

\* drop_table, lines 214-215
DropTablePlan(table_name) == Query(DropQuery(table_name), <<>>, FALSE)

\* paginate, line 267
PageOffset(page, per_page) == (page - 1) * per_page

\* the page count rounded down
PageCount_Floor(total, per_page) == total \div per_page

\* paginate, line 282
PageCount(total, per_page) == (total + per_page - 1) \div per_page

\* paginate, line 283
HasNext(page, per_page, total) == page * per_page < total

\* paginate, line 284
HasPrev(page) == page > 1

Pagination(page, per_page, total) ==
    [page |-> page, per_page |-> per_page, total |-> total,
     pages |-> PageCount(total, per_page),
     has_next |-> HasNext(page, per_page, total),
     has_prev |-> HasPrev(page)]

(***************************************************************************)
(* The public operations a caller starts.                                  *)
(***************************************************************************)
Allowed(role, name) ==
    CASE role = "caller" ->
           name \in {"insert", "upsert", "exists", "execute_query", "batch_update",
                     "transaction", "get_cursor"}
      [] role \in {"reader", "selector"} -> name = "select"
      [] role = "batch" -> name = "batch_update"
      [] role \in {"dict", "list"} -> name = "insert"
      [] role = "pager" -> name = "paginate"
      [] role = "deleter" -> name = "delete"
      [] role = "executor" -> name = "execute_query"
      [] role = "keygen" -> name \in {"insert", "get_last_insert_id"}
      [] role = "health" -> name \in {"test_connection", "execute_query"}
      [] role = "schema" -> name \in {"drop_table", "get_table_info"}
      [] OTHER -> FALSE

CanStart(p, name) ==
    /\ pc[p] = "idle"
    /\ Allowed(env[p].role, name)
    /\ hist[p].open < MaxLeak

Begin(p, o, c, l, next) ==
    /\ op' = [op EXCEPT ![p] = o]
    /\ call' = [call EXCEPT ![p] = c]
    /\ loc' = [loc EXCEPT ![p] = l]
    /\ pc' = [pc EXCEPT ![p] = next]
    /\ hist' = [hist EXCEPT ![p].prev = {},
                            ![p].before = db[World(p)],
                            ![p].after = \E r \in hist[p].prev :
                                             /\ o.name = "exists"
                                             /\ DictHas(r, o.where)
                                             /\ DictGet(r, o.where) = o.wp]
    /\ UNCHANGED <<env, db, auto, gc, tx, exc, seen>>

\* the records a successful insert has inserted
Inserted(p) ==
    IF op[p].name = "insert" /\ exc[p].kind = "none"
    THEN LET d == Normalise(op[p].data).val IN {d[i] : i \in 1 .. Len(d)}
    ELSE {}

\* the operation has returned or raised, and the caller goes on to its next call;
\* the callers whose single call is looked at make that call only
Continue(p) ==
    /\ pc[p] = "done"
    /\ env[p].role \notin {"dict", "list", "batch"}
    /\ pc' = [pc EXCEPT ![p] = "idle"]
    /\ op' = [op EXCEPT ![p] = NoOp]
    /\ call' = [call EXCEPT ![p] = NoCall]
    /\ loc' = [loc EXCEPT ![p] = NoLoc]
    /\ gc' = [gc EXCEPT ![p] = FreshSlot]
    /\ tx' = [tx EXCEPT ![p] = FreshSlot]
    /\ exc' = [exc EXCEPT ![p] = NoExc]
    /\ ret' = [ret EXCEPT ![p] = NoRet]
    /\ hist' = [hist EXCEPT ![p] = [NoHist EXCEPT !.open = hist[p].open,
                                                   !.gen = hist[p].gen,
                                                   !.prev = Inserted(p)]]
    /\ seen' = [seen EXCEPT ![p] = {}]
    /\ UNCHANGED <<env, db, auto>>

\* records that leave the id to AUTO_INCREMENT
AutoRecords == {<<<<"v", x>>>> : x \in Vals}

Lists(S) == UNION {[1 .. n -> S] : n \in 0 .. MaxBatch}

InsertInputs(p) ==
    CASE env[p].role = "dict" -> {[kind |-> "dict", val |-> env[p].rec]}
      [] env[p].role = "list" -> {[kind |-> "list", val |-> <<env[p].rec>>]}
      [] env[p].role = "keygen" ->
           \* records without an id, as many as there are keys left
           {d \in {[kind |-> "dict", val |-> r] : r \in AutoRecords}
                  \cup {[kind |-> "list", val |-> l] : l \in Lists(AutoRecords)} :
               auto[World(p)] + Len(Normalise(d).val) - 1 <= MaxKey}
      [] OTHER -> {[kind |-> "dict", val |-> r] : r \in Records}
                  \cup {[kind |-> "list", val |-> l] : l \in Lists(Records)}

\* insert(table, data)
StartInsert(p) ==
    /\ CanStart(p, "insert")
    /\ \E data \in InsertInputs(p) :
          LET c == InsertPlan("t", data, <<>>)
          IN /\ Begin(p, [NoOp EXCEPT !.name = "insert", !.data = data], c, NoLoc,
                      IF c.kind = "none" THEN "done" ELSE "gc_connect")
             /\ ret' = [ret EXCEPT ![p] =
                           IF c.kind = "none" THEN [NoRet EXCEPT !.kind = "int", !.n = 0]
                           ELSE NoRet]

\* upsert(table, data, update_fields=...)
StartUpsert(p) ==
    /\ CanStart(p, "upsert")
    /\ \E data \in Records, update_fields \in {<<>>, <<"v">>} :
          Begin(p, [NoOp EXCEPT !.name = "upsert", !.data = [kind |-> "dict", val |-> data]],
                UpsertPlan("t", data, update_fields), NoLoc, "gc_connect")
    /\ ret' = [ret EXCEPT ![p] = NoRet]

\* exists(table, "<col> = %s", [value])
StartExists(p) ==
    /\ CanStart(p, "exists")
    /\ \E w \in {<<"id", k>> : k \in Keys} \cup {<<"v", x>> : x \in Vals} :
          Begin(p, [NoOp EXCEPT !.name = "exists", !.where = w[1], !.wp = w[2]],
                ExistsPlan("t", w[1], <<w[2]>>), NoLoc, "gc_connect")
    /\ ret' = [ret EXCEPT ![p] = NoRet]

\* the arguments of select: every combination, or (the reader) none but the table
SelectInputs(p) ==
    IF env[p].role = "selector"
    THEN [where : {<<"", None>>, <<"v", 0>>}, order_by : {"", "id DESC"},
          limit : {None} \cup 0 .. MaxLimit, offset : {None} \cup 0 .. MaxLimit]
    ELSE {[where |-> <<"", None>>, order_by |-> "", limit |-> None, offset |-> None]}

\* select(table, where=..., params=..., order_by=..., limit=..., offset=...)
StartSelect(p) ==
    /\ CanStart(p, "select")
    /\ \E a \in SelectInputs(p) :
          Begin(p, [NoOp EXCEPT !.name = "select", !.where = a.where[1], !.wp = a.where[2],
                                !.order_by = a.order_by, !.limit = a.limit,
                                !.offset = a.offset],
                SelectPlan("t", a.where[1], IF a.where[1] = "" THEN <<>> ELSE <<a.where[2]>>,
                           a.order_by, a.limit, a.offset),
                NoLoc, "gc_connect")
    /\ ret' = [ret EXCEPT ![p] = NoRet]

\* the statements a caller hands to execute_query
Statements(p) ==
    IF env[p].role = "executor"
    THEN WriteStmts \cup DdlStmts
         \cup {[query |-> DeleteQuery("t", "id"), params |-> <<k>>] : k \in Keys}
    ELSE WriteStmts

\* execute_query(query, params, fetch=...) with a statement that writes
StartExecuteQuery(p) ==
    /\ CanStart(p, "execute_query")
    /\ \E s \in Statements(p), fetch \in BOOLEAN :
          Begin(p, [NoOp EXCEPT !.name = "execute_query"],
                Query(s.query, s.params, fetch), NoLoc, "gc_connect")
    /\ ret' = [ret EXCEPT ![p] = NoRet]

\* with db.get_cursor() as (connection, cursor): <the caller's block>
StartGetCursor(p) ==
    /\ CanStart(p, "get_cursor")
    /\ Begin(p, [NoOp EXCEPT !.name = "get_cursor"],
             [NoCall EXCEPT !.kind = "block"], NoLoc, "gc_connect")
    /\ ret' = [ret EXCEPT ![p] = NoRet]

\* with db.transaction() as connection: <the caller's block>
StartTransaction(p) ==
    /\ CanStart(p, "transaction")
    /\ Begin(p, [NoOp EXCEPT !.name = "transaction"], NoCall, NoLoc, "tx_connect")
    /\ ret' = [ret EXCEPT ![p] = NoRet]

\* the records of a batch: key and field, key only, or no key at all
BatchRecords ==
    {<<<<"id", k>>, <<"v", 1>>>> : k \in Keys}
    \cup {<<<<"id", k>>>> : k \in Keys}
    \cup {<<<<"v", 1>>>>}

\* batch_update(table, updates, "id"), lines 249-253
StartBatchUpdate(p) ==
    /\ CanStart(p, "batch_update")
    /\ \E u \in Lists(BatchRecords) :
          /\ Begin(p, [NoOp EXCEPT !.name = "batch_update", !.updates = u], NoCall,
                   [NoLoc EXCEPT !.i = 1, !.updates = u],
                   IF u = <<>> THEN "done" ELSE "tx_connect")
          /\ ret' = [ret EXCEPT ![p] =
                        IF u = <<>> THEN [NoRet EXCEPT !.kind = "int", !.n = 0] ELSE NoRet]

\* delete(table, "<col> = %s", [value], soft=...)
StartDelete(p) ==
    /\ CanStart(p, "delete")
    /\ \E w \in {<<"id", k>> : k \in Keys} \cup {<<"v", x>> : x \in Vals}, soft \in BOOLEAN :
          Begin(p, [NoOp EXCEPT !.name = "delete", !.where = w[1], !.wp = w[2],
                                !.soft = soft],
                DeletePlan("t", w[1], <<w[2]>>, soft), NoLoc, "gc_connect")
    /\ ret' = [ret EXCEPT ![p] = NoRet]

\* get_last_insert_id()
StartGetLastInsertId(p) ==
    /\ CanStart(p, "get_last_insert_id")
    /\ Begin(p, [NoOp EXCEPT !.name = "get_last_insert_id"], LastInsertIdPlan, NoLoc,
             "gc_connect")
    /\ ret' = [ret EXCEPT ![p] = NoRet]

\* test_connection()
StartTestConnection(p) ==
    /\ CanStart(p, "test_connection")
    /\ Begin(p, [NoOp EXCEPT !.name = "test_connection"], TestConnectionPlan, NoLoc,
             "gc_connect")
    /\ ret' = [ret EXCEPT ![p] = NoRet]

\* get_table_info(table_name)
StartGetTableInfo(p) ==
    /\ CanStart(p, "get_table_info")
    /\ \E table_name \in Strings :
          Begin(p, [NoOp EXCEPT !.name = "get_table_info", !.table = table_name],
                NoCall, NoLoc, "validate")
    /\ ret' = [ret EXCEPT ![p] = NoRet]

\* drop_table(table_name)
StartDropTable(p) ==
    /\ CanStart(p, "drop_table")
    /\ \E table_name \in Strings :
          Begin(p, [NoOp EXCEPT !.name = "drop_table", !.table = table_name],
                NoCall, NoLoc, "validate")
    /\ ret' = [ret EXCEPT ![p] = NoRet]

\* `if not ...isalnum(): raise ValueError("Invalid table name")`, lines 206-207 and
\* 212-213, then the statement is built and handed to execute_query
Validate(p) ==
    /\ pc[p] = "validate"
    /\ IF ValidTableName(op[p].table)
       THEN /\ call' = [call EXCEPT ![p] =
                           IF op[p].name = "drop_table" THEN DropTablePlan(op[p].table)
                           ELSE TableInfoPlan(op[p].table)]
            /\ pc' = [pc EXCEPT ![p] = "gc_connect"]
            /\ UNCHANGED <<exc, hist>>
       ELSE /\ RaiseIn(p, "Exception", "validate")
            /\ pc' = [pc EXCEPT ![p] = "done"]
            /\ call' = call
    /\ UNCHANGED <<env, db, auto, op, gc, tx, ret, loc, seen>>

\* paginate(table, page, per_page), lines 267-269: the count comes first
StartPaginate(p) ==
    /\ CanStart(p, "paginate")
    /\ \E page \in 1 .. MaxPage, per_page \in 1 .. MaxPerPage :
          Begin(p, [NoOp EXCEPT !.name = "paginate", !.page = page, !.per_page = per_page],
                CountPlan("t", "", <<>>), [NoLoc EXCEPT !.phase = "count"], "gc_connect")
    /\ ret' = [ret EXCEPT ![p] = NoRet]

(***************************************************************************)
(* batch_update's loop (lines 254-259) and the returns into the callers of *)
(* execute_query.                                                          *)
(***************************************************************************)
\* one record of the list: pop the key, update the other fields if there are any,
\* put the key back
BuStep(p) ==
    /\ pc[p] = "bu_loop"
    /\ LET i == loc[p].i
           u == loc[p].updates
       IN IF i > Len(u)
          THEN /\ pc' = [pc EXCEPT ![p] = "tx_commit"]
               /\ UNCHANGED <<call, gc, exc, loc, hist>>
          ELSE IF ~DictHas(u[i], "id")
          THEN /\ RaiseIn(p, "Exception", "pop")
               /\ pc' = [pc EXCEPT ![p] = TxAfterRaise("Exception", tx[p])]
               /\ UNCHANGED <<call, gc, loc>>
          ELSE LET key == DictGet(u[i], "id")
                   rest == DictPop(u[i], "id")
               IN IF rest # <<>>
                  THEN /\ loc' = [loc EXCEPT ![p].updates[i] = rest, ![p].key = key]
                       /\ call' = [call EXCEPT ![p] = UpdatePlan("t", rest, "id", <<key>>)]
                       /\ gc' = [gc EXCEPT ![p] = FreshSlot]
                       /\ pc' = [pc EXCEPT ![p] = "gc_connect"]
                       /\ UNCHANGED <<exc, hist>>
                  ELSE /\ loc' = [loc EXCEPT ![p].updates[i] = DictSet(rest, "id", key),
                                             ![p].key = key, ![p].i = i + 1]
                       /\ UNCHANGED <<call, gc, exc, hist, pc>>
    /\ UNCHANGED <<env, db, auto, op, tx, ret, seen>>

\* the count of the last update instead of the sum
AddAffected_Last(total_affected, affected) == affected

\* `total_affected += affected`, line 258
AddAffected(total_affected, affected) == total_affected + affected

\* self.update(...) came back: an exception leaves the block, a count is added
BuReturn(p) ==
    /\ pc[p] = "bu_return"
    /\ IF exc[p].kind # "none"
       THEN /\ pc' = [pc EXCEPT ![p] = TxAfterRaise(exc[p].kind, tx[p])]
            /\ loc' = loc
       ELSE /\ loc' = [loc EXCEPT ![p].total = AddAffected(@, ret[p].n),
                                  ![p].updates[loc[p].i] = DictSet(@, "id", loc[p].key),
                                  ![p].i = @ + 1]
            /\ pc' = [pc EXCEPT ![p] = "bu_loop"]
    /\ UNCHANGED <<env, db, auto, op, call, gc, tx, exc, ret, hist, seen>>

\* the with statement of execute_query / execute_many is left
GcReturn(p) ==
    /\ pc[p] = "gc_return"
    /\ pc' = [pc EXCEPT ![p] =
                 CASE op[p].name = "batch_update" -> "bu_return"
                   [] op[p].name = "paginate" -> "pg_return"
                   [] op[p].name = "test_connection" -> "tc_return"
                   [] OTHER -> "done"]
    /\ ret' = [ret EXCEPT ![p] =
                  IF exc[p].kind # "none" THEN NoRet
                  ELSE IF op[p].name = "exists"
                  THEN [NoRet EXCEPT !.kind = "bool", !.b = ExistsResult(ret[p].rows)]
                  ELSE IF op[p].name = "get_last_insert_id"
                  THEN [NoRet EXCEPT !.kind = "int", !.n = LastInsertIdResult(ret[p].rows)]
                  ELSE @]
    /\ UNCHANGED <<env, db, auto, op, call, gc, tx, exc, loc, hist, seen>>

\* test_connection, lines 220-223: the probe row is compared with 1, and an exception
\* that the except clause catches becomes False
TcReturn(p) ==
    /\ pc[p] = "tc_return"
    /\ IF exc[p].kind = "none"
       THEN /\ ret' = [ret EXCEPT ![p] =
                          [NoRet EXCEPT !.kind = "bool", !.b = ProbeResult(ret[p].rows)]]
            /\ exc' = exc
       ELSE IF TestConnectionCatches(exc[p].kind)
       THEN /\ ret' = [ret EXCEPT ![p] = [NoRet EXCEPT !.kind = "bool", !.b = FALSE]]
            /\ exc' = [exc EXCEPT ![p] = NoExc]
       ELSE UNCHANGED <<ret, exc>>
    /\ pc' = [pc EXCEPT ![p] = "done"]
    /\ UNCHANGED <<env, db, auto, op, call, gc, tx, loc, hist, seen>>

\* paginate, lines 269-286: after the count the select, after the select the result
PgReturn(p) ==
    /\ pc[p] = "pg_return"
    /\ IF exc[p].kind # "none"
       THEN /\ pc' = [pc EXCEPT ![p] = "done"]
            /\ UNCHANGED <<call, loc, ret>>
       ELSE IF loc[p].phase = "count"
       THEN /\ loc' = [loc EXCEPT ![p].total = CountResult(ret[p].rows),
                                  ![p].phase = "select"]
            /\ call' = [call EXCEPT ![p] =
                           SelectPlan("t", "", <<>>, "", op[p].per_page,
                                      PageOffset(op[p].page, op[p].per_page))]
            /\ pc' = [pc EXCEPT ![p] = "gc_connect"]
            /\ ret' = ret
       ELSE /\ ret' = [ret EXCEPT ![p] =
                          [NoRet EXCEPT !.kind = "page", !.rows = ret[p].rows,
                                        !.page = Pagination(op[p].page, op[p].per_page,
                                                            loc[p].total)]]
            /\ pc' = [pc EXCEPT ![p] = "done"]
            /\ UNCHANGED <<call, loc>>
    /\ UNCHANGED <<env, db, auto, op, gc, tx, exc, hist, seen>>

(***************************************************************************)
(* Specifications.                                                         *)
(***************************************************************************)
Rest(procs) ==
    /\ op = [p \in procs |-> NoOp]
    /\ pc = [p \in procs |-> "idle"]
    /\ call = [p \in procs |-> NoCall]
    /\ gc = [p \in procs |-> FreshSlot]
    /\ tx = [p \in procs |-> FreshSlot]
    /\ exc = [p \in procs |-> NoExc]
    /\ ret = [p \in procs |-> NoRet]
    /\ loc = [p \in procs |-> NoLoc]
    /\ hist = [p \in procs |-> NoHist]
    /\ seen = [p \in procs |-> {}]
    /\ auto = [w \in DOMAIN db |-> AutoIncrement(db[w])]

Caller(world, role, rec) == [world |-> world, role |-> role, rec |-> rec]

Tables == UNION {[S -> {[DefaultRow EXCEPT !.v = x] : x \in Vals}] : S \in SUBSET Keys}

\* one caller using every operation, one after the other, on an empty table
Init ==
    /\ env = [p \in Solo |-> Caller(1, "caller", <<>>)]
    /\ db = [w \in {1} |-> EmptyTable]
    /\ Rest(Solo)

Cursor(p) ==
    \/ GcConnect(p) \/ GcCursor(p) \/ GcExecute(p) \/ GcFetch(p) \/ GcCommit(p)
    \/ GcRollback(p) \/ GcFinally(p) \/ GcClose(p) \/ GcReturn(p)

Transaction(p) ==
    \/ TxConnect(p) \/ TxStart(p) \/ TxCommit(p) \/ TxRollback(p) \/ TxClose(p)

Next ==
    \E p \in Solo :
        \/ StartInsert(p) \/ StartUpsert(p) \/ StartExists(p) \/ StartExecuteQuery(p)
        \/ StartGetCursor(p) \/ StartTransaction(p) \/ StartBatchUpdate(p)
        \/ Cursor(p) \/ GcMany(p)
        \/ BlockExecute(p) \/ BlockRaise(p) \/ BlockEnd(p)
        \/ Transaction(p)
        \/ TxBlockExecute(p) \/ TxBlockRaise(p) \/ TxBlockEnd(p)
        \/ BuStep(p) \/ BuReturn(p)
        \/ Continue(p)

Spec == Init /\ [][Next]_vars

\* a caller running batch_update while a second caller reads through its own connection
InitConc ==
    /\ env = [p \in Pair |-> IF p = 1 THEN Caller(1, "batch", <<>>)
                               ELSE Caller(1, "reader", <<>>)]
    /\ db = [w \in {1} |-> [k \in Keys |-> DefaultRow]]
    /\ Rest(Pair)

NextConc ==
    \E p \in Pair :
        \/ StartBatchUpdate(p) \/ StartSelect(p)
        \/ Cursor(p) \/ Transaction(p)
        \/ BuStep(p) \/ BuReturn(p)
        \/ Continue(p)

SpecConc == InitConc /\ [][NextConc]_vars

\* insert of a record and insert of the one-element list of the same record, each
\* against its own server, both servers starting with the same table
InitInsert ==
    \E r \in Records, t \in Tables :
        /\ env = [p \in Pair |-> IF p = 1 THEN Caller(1, "dict", r)
                                   ELSE Caller(2, "list", r)]
        /\ db = [w \in {1, 2} |-> t]
        /\ Rest(Pair)

NextInsert ==
    \E p \in Pair :
        \/ StartInsert(p)
        \/ GcConnect(p) \/ GcCursor(p) \/ GcExecute(p) \/ GcCommit(p)
        \/ GcRollback(p) \/ GcFinally(p) \/ GcClose(p) \/ GcReturn(p)

SpecInsert == InitInsert /\ [][NextInsert]_vars

\* execute_query with INSERT, UPDATE and DELETE statements and with a DROP TABLE, on a
\* table that has a row for key 1 and none for the others
InitExecute ==
    /\ env = [p \in Solo |-> Caller(1, "executor", <<>>)]
    /\ db = [w \in {1} |-> [k \in {1} |-> DefaultRow]]
    /\ Rest(Solo)

NextExecute ==
    \E p \in Solo :
        \/ StartExecuteQuery(p) \/ Cursor(p) \/ Continue(p)

SpecExecute == InitExecute /\ [][NextExecute]_vars

\* inserts that let the server generate the key, and get_last_insert_id
InitLastId ==
    /\ env = [p \in Solo |-> Caller(1, "keygen", <<>>)]
    /\ db = [w \in {1} |-> EmptyTable]
    /\ Rest(Solo)

NextLastId ==
    \E p \in Solo :
        \/ StartInsert(p) \/ StartGetLastInsertId(p)
        \/ Cursor(p) \/ GcMany(p) \/ Continue(p)

SpecLastId == InitLastId /\ [][NextLastId]_vars

\* select with every combination of its optional arguments
InitSelect ==
    /\ env = [p \in Solo |-> Caller(1, "selector", <<>>)]
    /\ db = [w \in {1} |-> [k \in Keys |-> DefaultRow]]
    /\ Rest(Solo)

NextSelect ==
    \E p \in Solo :
        \/ StartSelect(p)
        \/ GcConnect(p) \/ GcCursor(p) \/ GcExecute(p) \/ GcFetch(p)
        \/ GcRollback(p) \/ GcFinally(p) \/ GcClose(p) \/ GcReturn(p)
        \/ Continue(p)

SpecSelect == InitSelect /\ [][NextSelect]_vars

\* hard and soft delete over every table
InitDelete ==
    \E t \in Tables :
        /\ env = [p \in Solo |-> Caller(1, "deleter", <<>>)]
        /\ db = [w \in {1} |-> t]
        /\ Rest(Solo)

NextDelete ==
    \E p \in Solo :
        \/ StartDelete(p)
        \/ GcConnect(p) \/ GcCursor(p) \/ GcExecute(p) \/ GcCommit(p)
        \/ GcRollback(p) \/ GcFinally(p) \/ GcClose(p) \/ GcReturn(p)
        \/ Continue(p)

SpecDelete == InitDelete /\ [][NextDelete]_vars

\* the health check next to an operation that propagates its failures
InitHealth ==
    /\ env = [p \in Solo |-> Caller(1, "health", <<>>)]
    /\ db = [w \in {1} |-> [k \in Keys |-> DefaultRow]]
    /\ Rest(Solo)

NextHealth ==
    \E p \in Solo :
        \/ StartTestConnection(p) \/ StartExecuteQuery(p)
        \/ Cursor(p) \/ TcReturn(p) \/ Continue(p)

SpecHealth == InitHealth /\ [][NextHealth]_vars

\* drop_table and get_table_info with table names of every shape
InitSchema ==
    /\ env = [p \in Solo |-> Caller(1, "schema", <<>>)]
    /\ db = [w \in {1} |-> [k \in Keys |-> DefaultRow]]
    /\ Rest(Solo)

NextSchema ==
    \E p \in Solo :
        \/ StartGetTableInfo(p) \/ StartDropTable(p) \/ Validate(p)
        \/ Cursor(p) \/ Continue(p)

SpecSchema == InitSchema /\ [][NextSchema]_vars

\* paginate over tables of 0 .. MaxRows rows
InitPaginate ==
    \E n \in 0 .. MaxRows :
        /\ env = [p \in Solo |-> Caller(1, "pager", <<>>)]
        /\ db = [w \in {1} |-> [k \in 1 .. n |-> DefaultRow]]
        /\ Rest(Solo)

NextPaginate ==
    \E p \in Solo :
        \/ StartPaginate(p)
        \/ GcConnect(p) \/ GcCursor(p) \/ GcExecute(p) \/ GcFetch(p)
        \/ GcRollback(p) \/ GcFinally(p) \/ GcClose(p) \/ GcReturn(p)
        \/ PgReturn(p) \/ Continue(p)

SpecPaginate == InitPaginate /\ [][NextPaginate]_vars

(***************************************************************************)
(* Properties.                                                             *)
(***************************************************************************)
Returned(p, name) == pc[p] = "done" /\ op[p].name = name

Raising(p) == exc[p].kind # "none"

\* the committed table is as it was when the operation started
Untouched(p) == db[World(p)] = hist[p].before

\* C1: batch_update is all-or-nothing on failure: when the update of record k > 1 of a
\* list of two or more records fails (its connection, cursor or statement fails) and
\* batch_update raises, no record's update is visible in the committed table.
C1_BatchAllOrNothing ==
    \A p \in Procs :
        ( /\ Returned(p, "batch_update")
          /\ Raising(p)
          /\ Len(op[p].updates) >= 2
          /\ loc[p].i > 1 /\ loc[p].i <= Len(op[p].updates)
          /\ hist[p].first.at \in {"connect", "cursor", "execute"} )
        => Untouched(p)

\* C2: a transaction scope is all-or-nothing: a block that completes is followed by
\* exactly one commit and all its statements become visible; when the block or the
\* commit raises (here: a database Error or another Exception), a rollback is issued,
\* no statement of the block becomes visible and the original exception reaches the
\* caller.
C2_TransactionAllOrNothing ==
    \A p \in Procs :
        Returned(p, "transaction") =>
            /\ hist[p].first.kind = "none" =>
                  /\ tx[p].commits = 1
                  /\ hist[p].vis = hist[p].issued
            /\ ( /\ hist[p].first.at \in {"execute", "block", "commit"}
                 /\ hist[p].first.kind \in {"Error", "Exception"} ) =>
                  /\ tx[p].rollbacks = 1
                  /\ Untouched(p)
                  /\ exc[p] = hist[p].first

\* C3: connection release: when a public operation or a get_cursor / transaction scope
\* is left, on any path, every connection it opened is closed (once) and the caller
\* holds no open connection.
C3_ConnectionsReleased ==
    \A p \in Procs :
        /\ pc[p] \in {"gc_return", "done"} =>
              /\ gc[p].conn # "open"
              /\ gc[p].conn = "closed" => gc[p].closes = 1
        /\ pc[p] = "done" =>
              /\ tx[p].conn # "open"
              /\ tx[p].conn = "closed" => tx[p].closes = 1
              /\ hist[p].open = 0

\* C4: get_cursor rolls back on any failure: when the block raises after the connection
\* was opened, a database Error or any other Exception, a rollback was issued on the
\* connection by the time get_cursor's finally clause runs and the exception leaves.
C4_RollbackOnAnyFailure ==
    \A p \in Procs :
        ( /\ pc[p] \in {"gc_finally", "gc_close", "gc_return"}
          /\ hist[p].first.at \in {"execute", "executemany", "fetchall", "commit", "block"}
          /\ hist[p].first.kind \in {"Error", "Exception"} )
        => gc[p].rollbacks >= 1

\* C5: execute_many is atomic: one connection and one cursor, at most one commit and
\* only after the last tuple; a normal return has committed every tuple; when the
\* statement fails for a tuple there is no commit, a rollback is issued and no tuple's
\* effect is visible.
C5_ExecuteManyAtomic ==
    \A p \in Procs :
        call[p].kind = "many" =>
            /\ hist[p].opened <= 1
            /\ gc[p].commits <= 1
            /\ gc[p].commits = 1 => gc[p].done = Len(call[p].params)
            /\ (pc[p] = "done" /\ ~Raising(p)) =>
                  /\ gc[p].commits = 1
                  /\ hist[p].vis = Len(call[p].params)
                  /\ ret[p].n = Len(call[p].params)
            /\ hist[p].first.at = "executemany" =>
                  /\ gc[p].commits = 0
                  /\ Untouched(p)
                  /\ pc[p] \in {"gc_finally", "gc_close", "gc_return", "done"}
                        => gc[p].rollbacks = 1

C5_Witness ==
    \E p \in Procs :
        /\ call[p].kind = "many"
        /\ pc[p] = "done"
        /\ hist[p].first.at = "executemany"
        /\ gc[p].done >= 1
        /\ gc[p].rollbacks = 1

\* C6: execute_query commits exactly when fetch is false: with fetch=False a successful
\* statement is followed by one commit, on the open connection, and the affected-row
\* count is returned after the connection was closed; with fetch=True no commit is
\* issued and the statement's effects never reach the committed table, whatever the
\* statement is.
C6_CommitIffNotFetch ==
    \A p \in Procs :
        call[p].kind = "query" =>
            /\ call[p].fetch =>
                  /\ gc[p].commits = 0
                  /\ pc[p] # "gc_commit"
                  /\ op[p].name = "execute_query" => Untouched(p)
            /\ pc[p] = "gc_commit" => (gc[p].conn = "open" /\ gc[p].commits = 0)
            /\ (~call[p].fetch /\ gc[p].done = 1 /\ pc[p] \in {"gc_rollback", "gc_finally",
                                                               "gc_close", "gc_return"})
                  => gc[p].commits = 1
            /\ (~call[p].fetch /\ Returned(p, "execute_query") /\ ~Raising(p)) =>
                  /\ gc[p].commits = 1
                  /\ gc[p].conn = "closed"
                  /\ ret[p].kind = "int"
                  /\ ret[p].n = gc[p].rc
                  /\ hist[p].vis = 1

\* C6, amended: execute_query calls commit exactly when fetch is false (as above); with
\* fetch=True no commit is issued, and the effects of a statement that changes rows
\* (INSERT, UPDATE, DELETE) never reach the committed table, while a DROP TABLE, which
\* the server commits implicitly, has taken effect as soon as it has run, whatever
\* fetch is and whatever happens to the call afterwards.
C6_CommitIffNotFetchRows ==
    \A p \in Procs :
        call[p].kind = "query" =>
            /\ call[p].fetch =>
                  /\ gc[p].commits = 0
                  /\ pc[p] # "gc_commit"
                  /\ (op[p].name = "execute_query" /\ ~Implicit(call[p].query))
                        => Untouched(p)
            /\ (op[p].name = "execute_query" /\ Implicit(call[p].query))
                  => db[World(p)] = IF gc[p].done = 1 THEN NoTable ELSE hist[p].before
            /\ pc[p] = "gc_commit" => (gc[p].conn = "open" /\ gc[p].commits = 0)
            /\ (~call[p].fetch /\ gc[p].done = 1 /\ pc[p] \in {"gc_rollback", "gc_finally",
                                                               "gc_close", "gc_return"})
                  => gc[p].commits = 1
            /\ (~call[p].fetch /\ Returned(p, "execute_query") /\ ~Raising(p)) =>
                  /\ gc[p].commits = 1
                  /\ gc[p].conn = "closed"
                  /\ ret[p].kind = "int"
                  /\ ret[p].n = gc[p].rc
                  /\ hist[p].vis = 1

C6_Witness ==
    \E p \in Procs :
        /\ Returned(p, "execute_query")
        /\ call[p].fetch
        /\ call[p].query.verb = "INSERT"
        /\ gc[p].done = 1
        /\ gc[p].rc = 1
        /\ ~Raising(p)
        /\ hist[p].before # EmptyTable
        /\ Untouched(p)

\* the update of a batch record is in table t
Applied(t, record) ==
    /\ DictHas(record, "id")
    /\ DictGet(record, "id") \in DOMAIN t
    /\ \A f \in DictItems(DictPop(record, "id")) : t[DictGet(record, "id")][f[1]] = f[2]

\* some but not all of the updates of a batch are in table t
Partial(t, updates) ==
    \E i, j \in NonKeyRecords(updates) : Applied(t, updates[i]) /\ ~Applied(t, updates[j])

\* C7: batch isolation: a caller that reads through its own connection while
\* batch_update runs over two or more records never finds a committed table with some
\* but not all of the batch's updates.
C7_BatchIsolation ==
    \A p \in Procs :
        \A s \in seen[p] :
            Len(op[s[1]].updates) >= 2 => ~Partial(s[2], op[s[1]].updates)

\* C8: read-your-writes across connections: exists returns whether the committed table
\* has a row matching where, so false when there is none, and true when the operation
\* before it was a successful insert of a matching record; the probe runs on a
\* connection of its own.
C8_ExistsAfterInsert ==
    \A p \in Procs :
        (Returned(p, "exists") /\ ~Raising(p)) =>
            /\ ret[p].kind = "bool"
            /\ ret[p].b = (Matching(db[World(p)], op[p].where, op[p].wp) # {})
            /\ hist[p].after => ret[p].b
            /\ hist[p].opened = 1

C8_Witness ==
    \E p \in Procs :
        /\ Returned(p, "exists")
        /\ ~Raising(p)
        /\ hist[p].after
        /\ ret[p].b

\* C9: insert of a single record and insert of the one-element list of that record,
\* from the same table: the same statement with the same parameters goes to the
\* executor, and when both return they return the same count and leave the same table.
C9_InsertOneOrList ==
    ( /\ Procs = Pair
      /\ op[1].name = "insert" /\ op[2].name = "insert"
      /\ op[1].data.kind = "dict" /\ op[2].data.kind = "list" )
    => /\ call[1].kind = call[2].kind
       /\ call[1] = call[2]
       /\ (Len(hist[1].queries) = 1 /\ Len(hist[2].queries) = 1)
             => hist[1].queries = hist[2].queries
       /\ (pc[1] = "done" /\ pc[2] = "done" /\ ~Raising(1) /\ ~Raising(2))
             => /\ ret[1] = ret[2]
                /\ db[1] = db[2]

C9_Witness ==
    /\ Procs = Pair
    /\ Returned(1, "insert") /\ Returned(2, "insert")
    /\ op[1].data.kind = "dict" /\ op[2].data.kind = "list"
    /\ ~Raising(1) /\ ~Raising(2)
    /\ ret[1].n = 1
    /\ db[1] # hist[1].before

\* the offset a SELECT statement asks for: that of its OFFSET clause, or none
EffectiveOffset(q) == IF q.offset = None THEN 0 ELSE q.offset

\* C10: paginate's metadata: pages = ceil(total / per_page), has_next = (page * per_page
\* < total), has_prev = (page > 1), the count is issued before the select, whose offset
\* is (page - 1) * per_page; page 2 of 25 rows by 10 has 3 pages, a next and a previous
\* page, page 3 has no next page.
C10_PaginateMetadata ==
    \A p \in Procs :
        (Returned(p, "paginate") /\ ~Raising(p)) =>
            LET m == ret[p].page
                page == op[p].page
                per_page == op[p].per_page
                total == Cardinality(DOMAIN db[World(p)])
            IN /\ ret[p].kind = "page"
               /\ m.page = page /\ m.per_page = per_page /\ m.total = total
               /\ m.pages * per_page >= total
               /\ (m.pages - 1) * per_page < total
               /\ m.pages >= 0
               /\ m.has_next <=> (page * per_page < total)
               /\ m.has_prev <=> (page > 1)
               /\ Len(hist[p].queries) = 2
               /\ hist[p].queries[1].q.verb = "SELECT COUNT(*)"
               /\ hist[p].queries[2].q.verb = "SELECT"
               /\ hist[p].queries[2].q.limit = per_page
               /\ EffectiveOffset(hist[p].queries[2].q) = (page - 1) * per_page
               /\ (page = 2 /\ per_page = 10 /\ total = 25)
                     => (m.pages = 3 /\ m.has_next /\ m.has_prev)
               /\ (page = 3 /\ per_page = 10 /\ total = 25) => ~m.has_next

C10_Witness ==
    \E p \in Procs :
        /\ Returned(p, "paginate")
        /\ ~Raising(p)
        /\ op[p].page = 2 /\ op[p].per_page = 10
        /\ ret[p].page.total = 25
        /\ ret[p].page.pages = 3

\* the rows a page of per_page rows starting at row offset + 1 has, of total rows
PageRows(total, per_page, offset) ==
    LET left == IF total > offset THEN total - offset ELSE 0
    IN IF per_page < left THEN per_page ELSE left

\* C11: paginate's data window: with no concurrent writer, for page >= 1 and
\* per_page >= 1 over a table of total rows the data list has exactly
\* min(per_page, max(0, total - (page - 1) * per_page)) rows, page 1 (offset 0)
\* included, and has_next is true exactly when the page after it would have a row;
\* page 2 of 25 rows by 10 has 10 rows.
C11_PaginateWindow ==
    \A p \in Procs :
        (Returned(p, "paginate") /\ ~Raising(p)) =>
            LET page == op[p].page
                per_page == op[p].per_page
                total == Cardinality(DOMAIN db[World(p)])
            IN /\ Len(ret[p].rows) = PageRows(total, per_page, (page - 1) * per_page)
               /\ ret[p].page.has_next <=> (PageRows(total, per_page, page * per_page) >= 1)
               /\ (page = 2 /\ per_page = 10 /\ total = 25) => Len(ret[p].rows) = 10

C11_Witness ==
    \E p \in Procs :
        /\ Returned(p, "paginate")
        /\ ~Raising(p)
        /\ op[p].page = 3 /\ op[p].per_page = 10
        /\ Cardinality(DOMAIN db[World(p)]) = 25
        /\ Len(ret[p].rows) = 5
        /\ ~ret[p].page.has_next

\* a table name that is empty or has a character other than a letter, a digit, an
\* underscore or a hyphen
BadShape(table_name) ==
    \/ table_name = <<>>
    \/ \E i \in 1 .. Len(table_name) : table_name[i] \notin {"t", "1", "_", "-"}

\* C12: identifier validation precedes any I/O: drop_table and get_table_info given a
\* table name that is empty or has a character other than letters, digits, underscore
\* and hyphen raise a validation error (ValueError), and no connection is opened and
\* no statement is sent.
C12_ValidationBeforeIO ==
    \A p \in Procs :
        ( /\ op[p].name \in {"drop_table", "get_table_info"}
          /\ BadShape(op[p].table)
          /\ pc[p] # "validate" )
        => /\ pc[p] = "done"
           /\ exc[p] = Raised("Exception", "validate")
           /\ hist[p].opened = 0
           /\ hist[p].queries = <<>>
           /\ gc[p] = FreshSlot
           /\ call[p] = NoCall
           /\ Untouched(p)

C12_Witness ==
    \E p \in Procs :
        /\ Returned(p, "drop_table")
        /\ op[p].table = <<"t", ";">>
        /\ exc[p].at = "validate"
        /\ hist[p].opened = 0

\* C13: test_connection never raises: whatever fails (connecting, executing, fetching,
\* or the rollback and close steps after it) it returns False, and True only when the
\* probe ran and its row is 1; every other public operation hands the original
\* failure, the first exception raised, to its caller once its rollback and close
\* steps are done.
C13_OnlyTestConnectionSwallows ==
    \A p \in Procs :
        /\ Returned(p, "test_connection") =>
              /\ ~Raising(p)
              /\ ret[p].kind = "bool"
              /\ hist[p].first.kind # "none" => ~ret[p].b
              /\ ret[p].b => (hist[p].issued = 1 /\ call[p].query = ProbeQuery)
        /\ ( /\ pc[p] = "done"
             /\ op[p].name \notin {"", "test_connection"}
             /\ hist[p].first.kind # "none" )
           => exc[p] = hist[p].first

\* C14: soft delete keeps rows: delete(table, where, params, soft=True) sends no DELETE
\* statement, leaves the number of rows unchanged, sets deleted_at of every row
\* matching where to the current time of the call and leaves every other field and
\* every other row as it was.
C14_SoftDeleteKeepsRows ==
    \A p \in Procs :
        (Returned(p, "delete") /\ op[p].soft /\ ~Raising(p)) =>
            LET old == hist[p].before
                new == db[World(p)]
            IN /\ \A i \in 1 .. Len(hist[p].queries) : hist[p].queries[i].q.verb # "DELETE"
               /\ DOMAIN new = DOMAIN old
               /\ \A k \in DOMAIN old :
                     new[k] = IF Matches(k, old[k], op[p].where, op[p].wp)
                              THEN [old[k] EXCEPT !.deleted_at = Now]
                              ELSE old[k]

RECURSIVE Affected(_)
\* the sum of the affected-row counts the server reported for a list of statements
Affected(queries) ==
    IF queries = <<>> THEN 0 ELSE Head(queries).rc + Affected(Tail(queries))

\* C15: batch_update's result: when every record's update succeeds, batch_update
\* returns the sum of the affected-row counts of the updates of the records that have
\* a field besides the key (at least the rows the batch changed, at most one row for
\* each update whose key is in the table); a record of the key field alone sends no
\* statement, raises nothing and adds zero; an empty list returns 0 and opens no
\* connection.
C15_BatchUpdateResult ==
    \A p \in Procs :
        (Returned(p, "batch_update") /\ ~Raising(p)) =>
            LET u == op[p].updates
                nk == NonKeyRecords(u)
            IN /\ ret[p].kind = "int"
               /\ ret[p].n = Affected(hist[p].queries)
               /\ ret[p].n >= Cardinality({k \in DOMAIN hist[p].before :
                                              db[World(p)][k] # hist[p].before[k]})
               /\ ret[p].n <= Cardinality({i \in nk : DictGet(u[i], "id") \in DOMAIN hist[p].before})
               /\ Len(hist[p].queries) = Cardinality(nk)
               /\ \A i \in 1 .. Len(hist[p].queries) : hist[p].queries[i].q.verb = "UPDATE"
               /\ hist[p].opened = IF u = <<>> THEN 0 ELSE 1 + Cardinality(nk)
               /\ u = <<>> => ret[p].n = 0

C15_Witness ==
    \E p \in Procs :
        /\ Returned(p, "batch_update")
        /\ ~Raising(p)
        /\ Len(op[p].updates) = 2
        /\ Cardinality(NonKeyRecords(op[p].updates)) = 1
        /\ Len(hist[p].queries) = 1
        /\ ret[p].n = 1

\* the place of a clause in the fixed order WHERE, ORDER BY, LIMIT, OFFSET
ClauseRank(c) ==
    CASE c = "WHERE" -> 1 [] c = "ORDER BY" -> 2 [] c = "LIMIT" -> 3 [] c = "OFFSET" -> 4
      [] OTHER -> 0

HasClause(q, c) == \E i \in 1 .. Len(q.clauses) : q.clauses[i] = c

\* C16: select's clause assembly: the statement has its WHERE, ORDER BY, LIMIT and
\* OFFSET clauses in that order, and each clause is there exactly when the caller
\* supplied its argument, a limit of 0, an offset of 0 and an offset without a limit
\* included.
C16_SelectClauses ==
    \A p \in Procs :
        (op[p].name = "select" /\ call[p].kind = "query") =>
            LET q == call[p].query
            IN /\ \A i, j \in 1 .. Len(q.clauses) :
                     i < j => ClauseRank(q.clauses[i]) < ClauseRank(q.clauses[j])
               /\ HasClause(q, "WHERE") <=> (op[p].where # "")
               /\ HasClause(q, "ORDER BY") <=> (op[p].order_by # "")
               /\ HasClause(q, "LIMIT") <=> (op[p].limit # None)
               /\ HasClause(q, "OFFSET") <=> (op[p].offset # None)

\* C17: close ordering in get_cursor: close is issued on the connection only while it
\* is still connected, once, and with the cursor no longer open (the cursor is closed
\* before its connection is); no close is issued on a connection that was lost, at
\* whatever call it was lost (cursor, execute, fetch, commit, rollback); a statement
\* runs on a cursor and a connection only while both are open, so never after either
\* was closed.
C17_CloseOrdering ==
    [][\A p \in Procs :
          /\ gc'[p].closes > gc[p].closes =>
                /\ gc[p].conn = "open"
                /\ gc[p].cursor # "open"
                /\ gc[p].closes = 0
          /\ gc[p].conn = "lost" => (gc'[p].closes = gc[p].closes /\ gc'[p].conn # "closed")
          /\ (gc[p].conn # "closed" /\ gc'[p].conn = "closed") =>
                gc'[p].closes = gc[p].closes + 1
          /\ gc'[p].done > gc[p].done =>
                /\ gc[p].conn = "open"
                /\ gc[p].cursor = "open"]_vars

C17_Witness ==
    \E p \in Procs :
        /\ pc[p] = "gc_return"
        /\ gc[p].done >= 1
        /\ gc[p].cursor = "closed"
        /\ gc[p].conn = "closed"
        /\ gc[p].closes = 1

\* C18: batch_update leaves the caller's input unchanged: on every exit, a normal
\* return or an exception raised while some record is updated, every record of the
\* updates list has the field-to-value pairs it had before the call, its key field
\* included.
C18_BatchInputUnchanged ==
    \A p \in Procs :
        Returned(p, "batch_update") =>
            /\ Len(loc[p].updates) = Len(op[p].updates)
            /\ \A i \in 1 .. Len(op[p].updates) :
                  DictItems(loc[p].updates[i]) = DictItems(op[p].updates[i])

\* C19: get_last_insert_id runs its query on a connection it has just opened, on
\* which no insert was ever executed, so whatever operations came before it, the value
\* it returns (0) is never the key that a preceding insert generated.
C19_LastInsertIdUnrelated ==
    \A p \in Procs :
        op[p].name = "get_last_insert_id" =>
            /\ hist[p].opened <= 1
            /\ gc[p].last_id = 0
            /\ \A i \in 1 .. Len(hist[p].queries) :
                  hist[p].queries[i].q.verb = "SELECT LAST_INSERT_ID()"
            /\ (pc[p] = "done" /\ ~Raising(p)) =>
                  /\ hist[p].opened = 1
                  /\ ret[p].kind = "int"
                  /\ ret[p].n = 0
                  /\ ret[p].n \notin hist[p].gen

C19_Witness ==
    \E p \in Procs :
        /\ Returned(p, "get_last_insert_id")
        /\ ~Raising(p)
        /\ hist[p].gen # {}
        /\ hist[p].gen \subseteq DOMAIN db[World(p)]
        /\ ret[p].n = 0

====
